---- MODULE Spec2Model ----
(***************************************************************************)
(* Model of src/f1_api_call.py: the Ergast fetchers and main(), the        *)
(* season/round enumerator that joins results, standings, qualifying and   *)
(* pit stops by driver id into one row per driver per race.                *)
(*                                                                         *)
(* The HTTP transport is the environment: every requests.get() is an       *)
(* existential choice of a response (status code and JSON body).  JSON     *)
(* objects are records, JSON arrays are sequences, a missing key is a key  *)
(* outside DOMAIN, and subscripting a missing key raises KeyError, which   *)
(* nothing in the program catches: the program then stops (pc "crashed").  *)
(* Elements of the upstream arrays (a result, a standing, a qualifying     *)
(* entry, a pit stop) carry the keys the API documents as mandatory; the   *)
(* keys the code itself treats as optional (Time, Q1, Q2, Q3, Results,     *)
(* DriverStandings, QualifyingResults, PitStops and the MRData path) may   *)
(* be absent.                                                              *)
(***************************************************************************)
EXTENDS Integers, Sequences, FiniteSets, TLC

(* ----------------------------- constants ------------------------------ *)

\* response.status_code == 200
StatusOK == 200

\* start_season = 2010, end_season = 2024
start_season == 2010

end_season == 2024

\* the stop of range(1, 30): rounds 1 .. RoundStop - 1 are probed
RoundStop == 30

(* ------------------------------- bounds ------------------------------- *)

\* Total number of result entries the API serves over one run (the size the
\* collection can reach).
MaxRows == 2

\* Longest pit-stop list the API serves for one driver in one race.
MaxPitStops == 2

(* --------------------------- Python values ---------------------------- *)

None == [py_none |-> TRUE]

EmptyDict == [k \in {} |-> None]

NA == "N/A"

\* bool(x) of None or of a dict
Truthy(v) == v # None /\ DOMAIN v # {}

\* d.get(k, default)
Get(d, k, default) == IF k \in DOMAIN d THEN d[k] ELSE default

\* the outcome of a call: it raised (KeyError), or it returned value,
\* and the lines it printed
Raise == [raised |-> TRUE, value |-> None, printed |-> <<>>]

Return(v) == [raised |-> FALSE, value |-> v, printed |-> <<>>]

ReturnPrinting(v, line) == [raised |-> FALSE, value |-> v, printed |-> <<line>>]

SeqsUpTo(S, n) == UNION {[1..k -> S] : k \in 0..n}

(* ------------------------- upstream API payloads ---------------------- *)

hamilton ==
  [driverId |-> "hamilton", givenName |-> "Lewis", familyName |-> "Hamilton",
   nationality |-> "British"]

max_verstappen ==
  [driverId |-> "max_verstappen", givenName |-> "Max",
   familyName |-> "Verstappen", nationality |-> "Dutch"]

DriverIds == {hamilton.driverId, max_verstappen.driverId}

\* one element of Races[0]["Results"]; a retired driver has no "Time"
ResultEntries ==
  {[Driver |-> hamilton, Constructor |-> [name |-> "Mercedes"], grid |-> "1",
    position |-> "1", status |-> "Finished", Time |-> [time |-> "1:26:33.291"],
    points |-> "25", laps |-> "58"],
   [Driver |-> max_verstappen, Constructor |-> [name |-> "Red Bull"],
    grid |-> "2", position |-> "19", status |-> "Retired", points |-> "0",
    laps |-> "31"]}

\* the elements of StandingsLists[0]["DriverStandings"], by position
StandingEntries ==
  <<[position |-> "1", points |-> "437", wins |-> "9", Driver |-> max_verstappen],
    [position |-> "2", points |-> "223", wins |-> "2", Driver |-> hamilton],
    [position |-> "7", points |-> "198", wins |-> "1", Driver |-> hamilton]>>

\* the standings lists the API serves, in position order: none, one driver,
\* both drivers, one driver listed twice
StandingsLists ==
  {[i \in DOMAIN p |-> StandingEntries[p[i]]] :
     p \in {<<>>, <<1>>, <<1, 2>>, <<2, 3>>}}

\* the elements of Races[0]["QualifyingResults"], by position; Q2 and Q3
\* exist only for the drivers who reached them
QualifyingEntries ==
  <<[position |-> "1", Driver |-> hamilton, Q1 |-> "1:23.4", Q2 |-> "1:22.8",
     Q3 |-> "1:22.2"],
    [position |-> "12", Driver |-> max_verstappen, Q1 |-> "1:23.9",
     Q2 |-> "1:23.1"],
    [position |-> "17", Driver |-> hamilton, Q1 |-> "1:24.5"]>>

\* the qualifying lists the API serves, in position order
QualifyingLists ==
  {[i \in DOMAIN p |-> QualifyingEntries[p[i]]] :
     p \in {<<3>>, <<1, 2>>, <<1, 3>>}}

\* the k pit stops of one driver, as the API numbers them
PitStopList(k, driver_id) ==
  [i \in 1..k |->
     [driverId |-> driver_id, stop |-> ToString(i),
      lap |-> ToString(25 * i - 10),
      duration |-> ToString(i + 1) \o "." \o ToString((7 - 3 * i) % 10)]]

\* the race object of /{season}/{round}.json
RaceRecord(s, r) ==
  [season |-> ToString(s), round |-> ToString(r),
   raceName |-> "Abu Dhabi Grand Prix",
   Circuit |-> [circuitName |-> "Yas Marina Circuit",
                Location |-> [locality |-> "Abu Dhabi"]],
   date |-> "2024-12-08"]

\* a race object without its "Circuit"
BareRace(s, r) ==
  [season |-> ToString(s), round |-> ToString(r),
   raceName |-> "Abu Dhabi Grand Prix", date |-> "2024-12-08"]

Response(code, json) == [status_code |-> code, body |-> json]

RaceTable(races) == [MRData |-> [RaceTable |-> [Races |-> races]]]

StandingsTable(lists) ==
  [MRData |-> [StandingsTable |-> [StandingsLists |-> lists]]]

\* a body without the table the fetcher subscripts
NoTable == [MRData |-> [total |-> "0"]]

NotFound == Response(404, [message |-> "Not Found"])

NoResponse == Response(0, [message |-> "no request yet"])

\* The rounds the upstream API holds a race record for: the last two rounds
\* probed in the last season.  Every other probe is answered "no race" (an
\* error status, an empty Races list or a body without its table).
DataRounds == {<<end_season, RoundStop - 2>>, <<end_season, RoundStop - 1>>}

\* whether the API holds a race for (s, r)
HasData(s, r) == <<s, r>> \in DataRounds

RaceResponses(s, r) ==
  {NotFound, Response(StatusOK, NoTable), Response(StatusOK, RaceTable(<<>>))}
  \cup (IF HasData(s, r)
        THEN {Response(StatusOK, RaceTable(<<RaceRecord(s, r)>>)),
              Response(StatusOK, RaceTable(<<BareRace(s, r)>>)),
              Response(503, RaceTable(<<RaceRecord(s, r)>>))}
        ELSE {})

ResultsResponses(s, r, budget) ==
  {NotFound, Response(StatusOK, NoTable), Response(StatusOK, RaceTable(<<>>)),
   Response(StatusOK, RaceTable(<<RaceRecord(s, r)>>))}
  \cup {Response(StatusOK, RaceTable(<<RaceRecord(s, r) @@ ("Results" :> l)>>)) :
          l \in SeqsUpTo(ResultEntries, budget)}

StandingsResponses(s, r) ==
  {NotFound, Response(StatusOK, NoTable),
   Response(StatusOK, StandingsTable(<<>>)),
   Response(StatusOK, StandingsTable(<<[season |-> ToString(s),
                                        round |-> ToString(r)]>>))}
  \cup {Response(StatusOK,
                 StandingsTable(<<[season |-> ToString(s), round |-> ToString(r),
                                   DriverStandings |-> l]>>)) :
          l \in StandingsLists}

QualifyingResponses(s, r) ==
  {NotFound, Response(StatusOK, NoTable), Response(StatusOK, RaceTable(<<>>)),
   Response(StatusOK, RaceTable(<<RaceRecord(s, r)>>))}
  \cup {Response(StatusOK,
                 RaceTable(<<RaceRecord(s, r) @@ ("QualifyingResults" :> l)>>)) :
          l \in QualifyingLists}

PitStopResponses(s, r, driver_id) ==
  {NotFound, Response(StatusOK, NoTable), Response(StatusOK, RaceTable(<<>>)),
   Response(StatusOK, RaceTable(<<RaceRecord(s, r)>>))}
  \cup {Response(StatusOK,
                 RaceTable(<<RaceRecord(s, r)
                             @@ ("PitStops" :> PitStopList(k, driver_id))>>)) :
          k \in 0..MaxPitStops}

(* ------------------------------ fetchers ------------------------------ *)

\* response.json()["MRData"][table][list] does not raise
HasList(json, table, list) ==
  /\ "MRData" \in DOMAIN json
  /\ table \in DOMAIN json.MRData
  /\ list \in DOMAIN json.MRData[table]

InfoLine(s, r) == [level |-> "INFO", season |-> s, round_number |-> r]

ErrorLine(s, r, code) ==
  [level |-> "ERROR", season |-> s, round_number |-> r, status |-> code]

\* fetch_race_data without the status check
fetch_race_data_any_status(s, r, response) ==
  IF ~HasList(response.body, "RaceTable", "Races")
  THEN IF response.status_code = StatusOK
       THEN Raise
       ELSE ReturnPrinting(None, ErrorLine(s, r, response.status_code))
  ELSE LET races == response.body.MRData.RaceTable.Races
       IN  IF races # <<>>
           THEN Return(races[1])
           ELSE ReturnPrinting(None, InfoLine(s, r))

fetch_race_data(s, r, response) ==
  IF response.status_code = StatusOK
  THEN IF ~HasList(response.body, "RaceTable", "Races")
       THEN Raise
       ELSE LET races == response.body.MRData.RaceTable.Races
            IN  IF races # <<>>
                THEN Return(races[1])
                ELSE ReturnPrinting(None, InfoLine(s, r))
  ELSE ReturnPrinting(None, ErrorLine(s, r, response.status_code))

fetch_driver_standings(response) ==
  IF response.status_code = StatusOK
  THEN IF ~HasList(response.body, "StandingsTable", "StandingsLists")
       THEN Raise
       ELSE LET data == response.body.MRData.StandingsTable.StandingsLists
            IN  IF data # <<>> /\ Len(data) > 0
                THEN IF "DriverStandings" \in DOMAIN data[1]
                     THEN Return(data[1].DriverStandings)
                     ELSE Raise
                ELSE Return(<<>>)
  ELSE Return(<<>>)

fetch_race_results(response) ==
  IF response.status_code = StatusOK
  THEN IF ~HasList(response.body, "RaceTable", "Races")
       THEN Raise
       ELSE LET race_table == response.body.MRData.RaceTable.Races
            IN  IF race_table # <<>>
                THEN IF "Results" \in DOMAIN race_table[1]
                     THEN Return(race_table[1].Results)
                     ELSE Raise
                ELSE Return(<<>>)
  ELSE Return(<<>>)

\* the loop body with entry.get("Q1", "") in place of "N/A"
QualifyingRecordBlank(entry) ==
  [position |-> entry.position,
   Q1 |-> Get(entry, "Q1", ""),
   Q2 |-> Get(entry, "Q2", ""),
   Q3 |-> Get(entry, "Q3", "")]

\* one pass of the loop body: qualifying_data[driver_id] = {...}
QualifyingRecord(entry) ==
  [position |-> entry.position,
   Q1 |-> Get(entry, "Q1", NA),
   Q2 |-> Get(entry, "Q2", NA),
   Q3 |-> Get(entry, "Q3", NA)]

\* the dict after the loop over entries[1..n]: a later entry of a driver
\* overwrites an earlier one
RECURSIVE QualifyingDict(_, _)
QualifyingDict(entries, n) ==
  IF n = 0
  THEN EmptyDict
  ELSE LET before == QualifyingDict(entries, n - 1)
           driver_id == entries[n].Driver.driverId
       IN  [k \in DOMAIN before \cup {driver_id} |->
              IF k = driver_id THEN QualifyingRecord(entries[n]) ELSE before[k]]

fetch_qualifying_results(response) ==
  IF response.status_code = StatusOK
  THEN IF ~HasList(response.body, "RaceTable", "Races")
       THEN Raise
       ELSE LET data == response.body.MRData.RaceTable.Races
            IN  IF data # <<>> /\ Len(data) > 0
                   /\ "QualifyingResults" \in DOMAIN data[1]
                THEN Return(QualifyingDict(data[1].QualifyingResults,
                                           Len(data[1].QualifyingResults)))
                ELSE Return(EmptyDict)
  ELSE Return(EmptyDict)

fetch_pitstops(response) ==
  IF response.status_code = StatusOK
  THEN IF ~HasList(response.body, "RaceTable", "Races")
       THEN Raise
       ELSE LET race_table == response.body.MRData.RaceTable.Races
            IN  IF race_table # <<>> /\ "PitStops" \in DOMAIN race_table[1]
                THEN Return(race_table[1].PitStops)
                ELSE Return(<<>>)
  ELSE Return(<<>>)

(* -------------------------------- main -------------------------------- *)

\* next((s for s in standings if s["Driver"]["driverId"] == driver_id), None),
\* scanning from standings[i]
RECURSIVE MatchStanding(_, _, _)
MatchStanding(stnd, driver_id, i) ==
  IF i > Len(stnd)
  THEN None
  ELSE IF stnd[i].Driver.driverId = driver_id
       THEN stnd[i]
       ELSE MatchStanding(stnd, driver_id, i + 1)

\* the last matching entry instead of the first
RECURSIVE MatchStandingBackwards(_, _, _)
MatchStandingBackwards(stnd, driver_id, i) ==
  IF i < 1
  THEN None
  ELSE IF stnd[i].Driver.driverId = driver_id
       THEN stnd[i]
       ELSE MatchStandingBackwards(stnd, driver_id, i - 1)

LastDriverStanding(stnd, driver_id) ==
  MatchStandingBackwards(stnd, driver_id, Len(stnd))

DriverStanding(stnd, driver_id) == MatchStanding(stnd, driver_id, 1)

\* driver_standing["points"] if driver_standing else "N/A"
DriverTotalPoints(driver_standing) ==
  IF Truthy(driver_standing) THEN driver_standing.points ELSE NA

\* qual_info = qualifying_data.get(driver_id, {})
QualInfo(qual, driver_id) == Get(qual, driver_id, EmptyDict)

\* f"Stop {p['stop']} @Lap {p['lap']} (Duration={p['duration']}s)"
StopText(p) ==
  "Stop " \o p.stop \o " @Lap " \o p.lap \o " (Duration=" \o p.duration \o "s)"

\* sep.join(parts[1..n])
RECURSIVE Join(_, _, _)
Join(sep, parts, n) ==
  IF n = 0
  THEN ""
  ELSE IF n = 1 THEN parts[1] ELSE Join(sep, parts, n - 1) \o sep \o parts[n]

\* the details joined with ", " in place of "; "
PitstopDetailsComma(stops) ==
  IF stops # <<>>
  THEN Join(", ", [i \in DOMAIN stops |-> StopText(stops[i])], Len(stops))
  ELSE "No Pitstops"

\* "; ".join([...]) if pitstops else "No Pitstops"
PitstopDetails(stops) ==
  IF stops # <<>>
  THEN Join("; ", [i \in DOMAIN stops |-> StopText(stops[i])], Len(stops))
  ELSE "No Pitstops"

\* num_pitstops = len(pitstops)
NumPitstops(stops) == Len(stops)

\* the sentinel in place of the finishing status
TimeOrNA(result) ==
  IF "Time" \in DOMAIN result THEN result.Time.time ELSE NA

\* result["Time"]["time"] if "Time" in result else finishing_status
TimeOrStatus(result) ==
  IF "Time" \in DOMAIN result THEN result.Time.time ELSE result.status

\* the dict appended to all_race_data
BuildRow(s, r, rc, result, stnd, qual, stops) ==
  LET driver == result.Driver
      driver_id == driver.driverId
      qual_info == QualInfo(qual, driver_id)
  IN  ("Season" :> s) @@ ("Round" :> r)
      @@ ("Race Name" :> rc.raceName)
      @@ ("Circuit Name" :> rc.Circuit.circuitName)
      @@ ("Location" :> rc.Circuit.Location.locality)
      @@ ("Race Date" :> rc.date)
      @@ ("Driver Name" :> driver.givenName \o " " \o driver.familyName)
      @@ ("Driver ID" :> driver_id)
      @@ ("Driver Nationality" :> driver.nationality)
      @@ ("Constructor" :> result.Constructor.name)
      @@ ("Qualifying Position" :> Get(qual_info, "position", NA))
      @@ ("Q1 Time" :> Get(qual_info, "Q1", NA))
      @@ ("Q2 Time" :> Get(qual_info, "Q2", NA))
      @@ ("Q3 Time" :> Get(qual_info, "Q3", NA))
      @@ ("Starting Grid Position" :> result.grid)
      @@ ("Final Position" :> result.position)
      @@ ("Finishing Status" :> result.status)
      @@ ("Time/Status" :> TimeOrStatus(result))
      @@ ("Points" :> result.points)
      @@ ("Laps Completed" :> result.laps)
      @@ ("Driver Total Points" :>
            DriverTotalPoints(DriverStanding(stnd, driver_id)))
      @@ ("Pit Stop Count" :> NumPitstops(stops))
      @@ ("Pit Stop Details" :> PitstopDetails(stops))

\* all_race_data.append(row)
AppendRow(rows, row) == Append(rows, row)

\* race["raceName"], race["Circuit"]["circuitName"],
\* race["Circuit"]["Location"]["locality"], race["date"] do not raise
RaceFieldsPresent(rc) ==
  /\ "raceName" \in DOMAIN rc
  /\ "Circuit" \in DOMAIN rc
  /\ "circuitName" \in DOMAIN rc.Circuit
  /\ "Location" \in DOMAIN rc.Circuit
  /\ "locality" \in DOMAIN rc.Circuit.Location
  /\ "date" \in DOMAIN rc

Call(fn, s, r, driver_id) ==
  [fn |-> fn, season |-> s, round_number |-> r, driver_id |-> driver_id]

VARIABLES
  pc,                  \* where main() is
  season,              \* the last season the outer range yielded
  round_number,        \* the last round the inner range yielded (0: none yet)
  race,                \* main's local race
  race_results,        \* main's local race_results
  standings,           \* main's local standings
  qualifying_data,     \* main's local qualifying_data
  result_idx,          \* how many of race_results the inner for has consumed
  pitstops,            \* main's local pitstops
  all_race_data,       \* main's local all_race_data
  exported,            \* the tables written by to_csv, in order
  printed,             \* the last line printed
  calls,               \* history: the fetches issued for the current round
  race_response,       \* history: the response to the round's race fetch
  qualifying_upstream, \* history: the QualifyingResults the round's response carried
  round_start,         \* history: len(all_race_data) when the round began
  n_probes             \* history: how many times fetch_race_data was called

vars ==
  <<pc, season, round_number, race, race_results, standings, qualifying_data,
    result_idx, pitstops, all_race_data, exported, printed, calls,
    race_response, qualifying_upstream, round_start, n_probes>>

locals == <<race, race_results, standings, qualifying_data, result_idx, pitstops>>

Init ==
  /\ pc = "for_season"
  /\ season = start_season - 1
  /\ round_number = 0
  /\ race = None
  /\ race_results = <<>>
  /\ standings = <<>>
  /\ qualifying_data = EmptyDict
  /\ result_idx = 0
  /\ pitstops = <<>>
  /\ all_race_data = <<>>
  /\ exported = <<>>
  /\ printed = [level |-> "NONE"]
  /\ calls = <<>>
  /\ race_response = NoResponse
  /\ qualifying_upstream = <<>>
  /\ round_start = 0
  /\ n_probes = 0

\* for season in range(start_season, end_season + 1): the next season, or
\* the loop is over
NextSeason ==
  /\ pc = "for_season"
  /\ IF season + 1 < end_season + 1
     THEN /\ season' = season + 1
          /\ round_number' = 0
          /\ pc' = "for_round"
     ELSE /\ pc' = "save"
          /\ UNCHANGED <<season, round_number>>
  /\ UNCHANGED <<locals, all_race_data, exported, printed, calls, race_response,
                 qualifying_upstream, round_start, n_probes>>

\* for round_number in range(1, 30): the next round, or the loop is over and
\* print("Collected data for Season - ", season)
NextRound ==
  /\ pc = "for_round"
  /\ IF round_number + 1 < RoundStop
     THEN /\ round_number' = round_number + 1
          /\ pc' = "fetch_race_data"
          /\ calls' = <<>>
          /\ race_response' = NoResponse
          /\ qualifying_upstream' = <<>>
          /\ round_start' = Len(all_race_data)
          /\ UNCHANGED printed
     ELSE /\ pc' = "for_season"
          /\ printed' = [level |-> "SEASON", season |-> season]
          /\ UNCHANGED <<round_number, calls, race_response,
                         qualifying_upstream, round_start>>
  /\ UNCHANGED <<season, locals, all_race_data, exported, n_probes>>

\* where main() goes once race is bound: continue, or on to the results
AfterRace(rc) ==
  IF ~Truthy(rc)
  THEN "for_round"
  ELSE IF RaceFieldsPresent(rc) THEN "fetch_race_results" ELSE "crashed"

\* race = fetch_race_data(season, round_number); if not race: continue;
\* race_name = race["raceName"]; ... race_date = race["date"]
FetchRaceData ==
  /\ pc = "fetch_race_data"
  /\ \E response \in RaceResponses(season, round_number) :
       LET r == fetch_race_data(season, round_number, response)
       IN  /\ calls' = Append(calls, Call("fetch_race_data", season, round_number, ""))
           /\ race_response' = response
           /\ n_probes' = n_probes + 1
           /\ IF r.raised
              THEN /\ pc' = "crashed"
                   /\ UNCHANGED <<race, printed>>
              ELSE /\ race' = r.value
                   /\ printed' = IF r.printed = <<>> THEN printed ELSE r.printed[1]
                   /\ pc' = AfterRace(r.value)
  /\ UNCHANGED <<season, round_number, race_results, standings, qualifying_data,
                 result_idx, pitstops, all_race_data, exported,
                 qualifying_upstream, round_start>>

\* race_results = fetch_race_results(season, round_number)
FetchRaceResults ==
  /\ pc = "fetch_race_results"
  /\ \E response \in ResultsResponses(season, round_number,
                                      MaxRows - Len(all_race_data)) :
       LET r == fetch_race_results(response)
       IN  /\ calls' = Append(calls, Call("fetch_race_results", season, round_number, ""))
           /\ IF r.raised
              THEN pc' = "crashed" /\ UNCHANGED race_results
              ELSE pc' = "fetch_driver_standings" /\ race_results' = r.value
  /\ UNCHANGED <<season, round_number, race, standings, qualifying_data,
                 result_idx, pitstops, all_race_data, exported, printed,
                 race_response, qualifying_upstream, round_start, n_probes>>

\* standings = fetch_driver_standings(season, round_number)
FetchDriverStandings ==
  /\ pc = "fetch_driver_standings"
  /\ \E response \in StandingsResponses(season, round_number) :
       LET r == fetch_driver_standings(response)
       IN  /\ calls' = Append(calls, Call("fetch_driver_standings", season, round_number, ""))
           /\ IF r.raised
              THEN pc' = "crashed" /\ UNCHANGED standings
              ELSE pc' = "fetch_qualifying_results" /\ standings' = r.value
  /\ UNCHANGED <<season, round_number, race, race_results, qualifying_data,
                 result_idx, pitstops, all_race_data, exported, printed,
                 race_response, qualifying_upstream, round_start, n_probes>>

\* the QualifyingResults array a qualifying response carries (none: empty)
QualifyingResultsOf(response) ==
  LET b == response.body
  IN  IF /\ response.status_code = StatusOK
         /\ HasList(b, "RaceTable", "Races")
         /\ b.MRData.RaceTable.Races # <<>>
         /\ "QualifyingResults" \in DOMAIN b.MRData.RaceTable.Races[1]
      THEN b.MRData.RaceTable.Races[1].QualifyingResults
      ELSE <<>>

\* for result in race_results: the body runs again, or the loop is over
ForResult(results, consumed) ==
  IF consumed < Len(results) THEN "for_result" ELSE "for_round"

\* qualifying_data = fetch_qualifying_results(season, round_number);
\* for result in race_results: (the loop starts)
FetchQualifyingResults ==
  /\ pc = "fetch_qualifying_results"
  /\ \E response \in QualifyingResponses(season, round_number) :
       LET r == fetch_qualifying_results(response)
       IN  /\ calls' = Append(calls, Call("fetch_qualifying_results", season, round_number, ""))
           /\ qualifying_upstream' = QualifyingResultsOf(response)
           /\ IF r.raised
              THEN pc' = "crashed" /\ UNCHANGED <<qualifying_data, result_idx>>
              ELSE /\ pc' = ForResult(race_results, 0)
                   /\ qualifying_data' = r.value
                   /\ result_idx' = 0
  /\ UNCHANGED <<season, round_number, race, race_results, standings, pitstops,
                 all_race_data, exported, printed, race_response, round_start,
                 n_probes>>

\* one pass of the body of: for result in race_results
ProcessResult ==
  /\ pc = "for_result"
  /\ LET result == race_results[result_idx + 1]
         driver_id == result.Driver.driverId
     IN  \E response \in PitStopResponses(season, round_number, driver_id) :
           LET r == fetch_pitstops(response)
           IN  /\ calls' = Append(calls, Call("fetch_pitstops", season, round_number, driver_id))
               /\ IF r.raised
                  THEN /\ pc' = "crashed"
                       /\ UNCHANGED <<result_idx, pitstops, all_race_data>>
                  ELSE /\ pc' = ForResult(race_results, result_idx + 1)
                       /\ result_idx' = result_idx + 1
                       /\ pitstops' = r.value
                       /\ all_race_data' =
                            AppendRow(all_race_data,
                                      BuildRow(season, round_number, race, result,
                                               standings, qualifying_data, r.value))
  /\ UNCHANGED <<season, round_number, race, race_results, standings,
                 qualifying_data, exported, printed, race_response,
                 qualifying_upstream, round_start, n_probes>>

\* df = pd.DataFrame(all_race_data); df.to_csv(...); print(...)
Save ==
  /\ pc = "save"
  /\ exported' = Append(exported, all_race_data)
  /\ printed' = [level |-> "SAVED"]
  /\ pc' = "done"
  /\ UNCHANGED <<season, round_number, locals, all_race_data, calls,
                 race_response, qualifying_upstream, round_start, n_probes>>

Next ==
  \/ NextSeason
  \/ NextRound
  \/ FetchRaceData
  \/ FetchRaceResults
  \/ FetchDriverStandings
  \/ FetchQualifyingResults
  \/ ProcessResult
  \/ Save

Spec == Init /\ [][Next]_vars

(* ---------------------- vocabulary of the properties ------------------ *)

\* the rows appended since the current round began
RowsOfRound == SubSeq(all_race_data, round_start + 1, Len(all_race_data))

\* the calls of the current round to one fetcher, in order
CallsTo(fn) == SelectSeq(calls, LAMBDA c : c.fn = fn)

\* the round's race fetch was answered, and with no race: a status other than
\* 200, or 200 with an empty Races list
RaceAbsent ==
  /\ Len(calls) >= 1
  /\ \/ race_response.status_code # StatusOK
     \/ /\ HasList(race_response.body, "RaceTable", "Races")
        /\ race_response.body.MRData.RaceTable.Races = <<>>

\* the round's race fetch was answered with a race record
RacePresent ==
  /\ Len(calls) >= 1
  /\ race_response.status_code = StatusOK
  /\ HasList(race_response.body, "RaceTable", "Races")
  /\ race_response.body.MRData.RaceTable.Races # <<>>

\* main() has left the body of the round loop, or has stopped
RoundOver == pc \in {"for_round", "for_season", "save", "done", "crashed"}

Terminated == pc \in {"done", "crashed"}

\* the round's results fetch was issued and returned (it did not raise)
ResultsReturned ==
  /\ Len(calls) >= 2
  /\ calls[2].fn = "fetch_race_results"
  /\ ~(Len(calls) = 2 /\ pc = "crashed")

\* the round's qualifying fetch was issued and returned (it did not raise)
QualifyingReturned ==
  /\ Len(CallsTo("fetch_qualifying_results")) = 1
  /\ ~(calls[Len(calls)].fn = "fetch_qualifying_results" /\ pc = "crashed")

IsPrefix(a, b) == Len(a) <= Len(b) /\ SubSeq(b, 1, Len(a)) = a

Smallest(S) == CHOOSE m \in S : \A n \in S : m <= n

Largest(S) == CHOOSE m \in S : \A n \in S : m >= n

NumSeasons == end_season - start_season + 1

(* -------------------------------- C1 ---------------------------------- *)

\* C1: a round whose race fetch is answered with a status other than 200, or
\* with 200 and an empty Races list, appends no row, and the race fetch is the
\* only fetch issued for it: no results, standings, qualifying or pit-stop
\* fetch follows.
C1_AbsentRaceContributesNothing ==
  RaceAbsent =>
    /\ Len(calls) = 1
    /\ calls[1].fn = "fetch_race_data"
    /\ RowsOfRound = <<>>
    /\ pc \in {"for_round", "for_season", "save", "done"}

\* an absent round met while the collection and the locals still hold the
\* previous round's data
C1_Witness ==
  /\ RaceAbsent
  /\ pc = "for_round"
  /\ all_race_data # <<>>
  /\ race_results # <<>>
  /\ race = None

(* -------------------------------- C2 ---------------------------------- *)

\* C2: once main() is past a round whose race record is present and whose
\* results fetch returned N entries, exactly N rows were appended for that
\* round, the i-th carrying the driver id of the i-th entry.
C2_OneRowPerResultInOrder ==
  (RoundOver /\ RacePresent /\ ResultsReturned) =>
    /\ Len(RowsOfRound) = Len(race_results)
    /\ \A i \in 1..Len(race_results) :
         RowsOfRound[i]["Driver ID"] = race_results[i].Driver.driverId

(* -------------------------------- C3 ---------------------------------- *)

\* C3: whatever the transport answers (an error status, or a 200 whose body
\* lacks a field a fetcher subscripts), no fetch raises: main() never stops
\* inside a round.
C3_NoFetchAborts == pc # "crashed"

(* -------------------------------- C4 ---------------------------------- *)

\* C4: the k-th call of fetch_race_data is for the k-th pair of
\* (start_season..end_season) x (1..30) in ascending order, and by the end
\* every pair has been probed: each exactly once, season by season, round by
\* round.
C4_ProbesEveryRoundUpTo30 ==
  LET rounds == 30
      season_of(k) == start_season + ((k - 1) \div rounds)
      round_of(k) == ((k - 1) % rounds) + 1
  IN  /\ (Len(calls) >= 1 /\ n_probes >= 1) =>
           /\ calls[1].fn = "fetch_race_data"
           /\ calls[1].season = season_of(n_probes)
           /\ calls[1].round_number = round_of(n_probes)
      /\ pc = "done" => n_probes = NumSeasons * rounds

(* -------------------------------- C5 ---------------------------------- *)

\* C5: every row of the round carries, as Driver Total Points, the points of
\* the first standings entry with the row's driver id, and "N/A" when the
\* standings hold no such entry; never the empty string.
C5_TotalPointsFirstMatchOrNA ==
  \A i \in 1..Len(RowsOfRound) :
    LET row == RowsOfRound[i]
        matches == {k \in 1..Len(standings) :
                      standings[k].Driver.driverId = row["Driver ID"]}
    IN  /\ row["Driver Total Points"] # ""
        /\ matches = {} => row["Driver Total Points"] = NA
        /\ matches # {} =>
             row["Driver Total Points"] = standings[Smallest(matches)].points

\* a driver listed twice in the standings next to a driver not listed
C5_Witness ==
  /\ \E i \in 1..Len(RowsOfRound) :
       /\ Cardinality({k \in 1..Len(standings) :
            standings[k].Driver.driverId = RowsOfRound[i]["Driver ID"]}) = 2
       /\ RowsOfRound[i]["Driver Total Points"] = "223"
  /\ \E i \in 1..Len(RowsOfRound) :
       /\ RowsOfRound[i]["Driver ID"] = max_verstappen.driverId
       /\ RowsOfRound[i]["Driver Total Points"] = NA

(* -------------------------------- C6 ---------------------------------- *)

\* the segments of a details string, first to last
RECURSIVE Segments(_)
Segments(stops) ==
  IF Len(stops) = 1
  THEN "Stop " \o stops[1].stop \o " @Lap " \o stops[1].lap
       \o " (Duration=" \o stops[1].duration \o "s)"
  ELSE "Stop " \o stops[1].stop \o " @Lap " \o stops[1].lap
       \o " (Duration=" \o stops[1].duration \o "s)" \o "; "
       \o Segments(Tail(stops))

\* C6: exactly one pit-stop fetch is issued per row, for the row's season,
\* round and driver id, and the row's count and details both come from the
\* list that fetch returned: count is its length, details is "No Pitstops"
\* exactly when the count is 0 and otherwise one segment per stop, in order,
\* joined by "; ".
C6_PitStopCountAndDetailsFromOneFetch ==
  LET rows == RowsOfRound
      pits == CallsTo("fetch_pitstops")
  IN  /\ \/ Len(pits) = Len(rows)
         \/ pc = "crashed" /\ Len(pits) = Len(rows) + 1
      /\ \A i \in 1..Len(rows) :
           /\ pits[i] = Call("fetch_pitstops", rows[i]["Season"],
                             rows[i]["Round"], rows[i]["Driver ID"])
           /\ rows[i]["Pit Stop Count"] = 0
                <=> rows[i]["Pit Stop Details"] = "No Pitstops"
      /\ rows # <<>> =>
           LET row == rows[Len(rows)]
           IN  /\ row["Pit Stop Count"] = Len(pitstops)
               /\ pitstops # <<>> => row["Pit Stop Details"] = Segments(pitstops)
               /\ pitstops = <<>> => row["Pit Stop Details"] = "No Pitstops"

\* the two stops of the example: (1, lap 15, 2.4) and (2, lap 40, 3.1)
C6_Witness ==
  /\ RowsOfRound # <<>>
  /\ Len(pitstops) = 2
  /\ LET row == RowsOfRound[Len(RowsOfRound)]
     IN  /\ row["Pit Stop Count"] = 2
         /\ row["Pit Stop Details"]
              = "Stop 1 @Lap 15 (Duration=2.4s); Stop 2 @Lap 40 (Duration=3.1s)"

(* -------------------------------- C7 ---------------------------------- *)

\* C7: every entry of the qualifying map has the keys position, Q1, Q2 and
\* Q3, taken from the last upstream entry of that driver, a lap time the
\* upstream entry lacks being "N/A"; and every row of the round carries the
\* map entry of its driver, or "N/A" four times when the map has no entry.
C7_QualifyingFieldsOrNA ==
  /\ QualifyingReturned =>
       /\ DOMAIN qualifying_data =
            {qualifying_upstream[k].Driver.driverId :
               k \in 1..Len(qualifying_upstream)}
       /\ \A d \in DOMAIN qualifying_data :
            LET e == qualifying_upstream[
                       Largest({k \in 1..Len(qualifying_upstream) :
                                  qualifying_upstream[k].Driver.driverId = d})]
            IN  /\ DOMAIN qualifying_data[d] = {"position", "Q1", "Q2", "Q3"}
                /\ qualifying_data[d].position = e.position
                /\ \A q \in {"Q1", "Q2", "Q3"} :
                     qualifying_data[d][q] = IF q \in DOMAIN e THEN e[q] ELSE NA
  /\ \A i \in 1..Len(RowsOfRound) :
       LET row == RowsOfRound[i]
           d == row["Driver ID"]
       IN  IF d \in DOMAIN qualifying_data
           THEN /\ row["Qualifying Position"] = qualifying_data[d].position
                /\ row["Q1 Time"] = qualifying_data[d].Q1
                /\ row["Q2 Time"] = qualifying_data[d].Q2
                /\ row["Q3 Time"] = qualifying_data[d].Q3
           ELSE /\ row["Qualifying Position"] = NA
                /\ row["Q1 Time"] = NA
                /\ row["Q2 Time"] = NA
                /\ row["Q3 Time"] = NA

\* a driver who set only a Q1 time next to a driver who did not qualify
C7_Witness ==
  /\ \E i \in 1..Len(RowsOfRound) :
       /\ RowsOfRound[i]["Qualifying Position"] = "17"
       /\ RowsOfRound[i]["Q1 Time"] = "1:24.5"
       /\ RowsOfRound[i]["Q2 Time"] = NA
       /\ RowsOfRound[i]["Q3 Time"] = NA
  /\ \E i \in 1..Len(RowsOfRound) :
       /\ RowsOfRound[i]["Driver ID"] \notin DOMAIN qualifying_data
       /\ RowsOfRound[i]["Qualifying Position"] = NA
       /\ RowsOfRound[i]["Q1 Time"] = NA

(* -------------------------------- C8 ---------------------------------- *)

\* C8: every row of the round carries, as Time/Status, the finish time of its
\* result entry when the entry has one, and otherwise the row's own Finishing
\* Status, which is the entry's status and not "N/A".
C8_TimeOrFinishingStatus ==
  \A i \in 1..Len(RowsOfRound) :
    LET row == RowsOfRound[i]
        result == race_results[i]
    IN  /\ row["Finishing Status"] = result.status
        /\ "Time" \in DOMAIN result => row["Time/Status"] = result.Time.time
        /\ "Time" \notin DOMAIN result =>
             /\ row["Time/Status"] = row["Finishing Status"]
             /\ row["Time/Status"] # NA

\* a retired driver's row
C8_Witness ==
  \E i \in 1..Len(RowsOfRound) :
    /\ "Time" \notin DOMAIN race_results[i]
    /\ RowsOfRound[i]["Time/Status"] = "Retired"

(* -------------------------------- C9 ---------------------------------- *)

\* C9: once main() is past a round whose race record is present, the fetches
\* issued for it were: the race fetch, then the results, standings and
\* qualifying fetches, once each, then one pit-stop fetch per result entry,
\* with that entry's driver id, in order; and nothing else.
C9_RoundFetchesOnceEachThenPitStops ==
  (RoundOver /\ RacePresent) =>
    /\ Len(calls) = 4 + Len(race_results)
    /\ calls[1].fn = "fetch_race_data"
    /\ \A fn \in {"fetch_race_results", "fetch_driver_standings",
                  "fetch_qualifying_results"} :
         \E k \in 2..4 : calls[k].fn = fn
    /\ \A i \in 1..Len(race_results) :
         /\ calls[4 + i].fn = "fetch_pitstops"
         /\ calls[4 + i].driver_id = race_results[i].Driver.driverId
    /\ \A k \in 1..Len(calls) :
         /\ calls[k].season = calls[1].season
         /\ calls[k].round_number = calls[1].round_number

(* -------------------------------- C10 --------------------------------- *)

\* C10: every step leaves the old collection a prefix of the new one; the
\* collection is exported only once every (season, round) pair has been
\* probed, and never a second time; and when main() has stopped the
\* collection has been exported exactly once.
C10_AppendOnlyThenExportedOnce ==
  [][/\ IsPrefix(all_race_data, all_race_data')
     /\ exported' # exported =>
          /\ exported = <<>>
          /\ exported' = <<all_race_data>>
          /\ n_probes = NumSeasons * (RoundStop - 1)
     /\ Terminated' => Len(exported') = 1]_vars

(* ------------------- the rounds that run to their end ----------------- *)

\* On the runs where no fetch raises, a round with a race record issues its
\* fetches as C9 says and appends its rows as C2 says.
CompletedRoundIsWhole ==
  (RoundOver /\ RacePresent /\ pc # "crashed") =>
    /\ C9_RoundFetchesOnceEachThenPitStops
    /\ C2_OneRowPerResultInOrder

\* The probes follow the code's own ranges: the k-th probe is the k-th pair of
\* (start_season..end_season) x (1..RoundStop - 1).
ProbesFollowTheRanges ==
  /\ (Len(calls) >= 1 /\ n_probes >= 1) =>
       /\ calls[1].season = start_season + ((n_probes - 1) \div (RoundStop - 1))
       /\ calls[1].round_number = ((n_probes - 1) % (RoundStop - 1)) + 1
  /\ pc = "done" => n_probes = NumSeasons * (RoundStop - 1)

\* The collection only grows at its end, and a run that reaches the end of
\* main() has exported it once.
AppendOnly ==
  [][/\ IsPrefix(all_race_data, all_race_data')
     /\ exported' # exported =>
          /\ exported' = <<all_race_data>>
          /\ n_probes = NumSeasons * (RoundStop - 1)
     /\ pc' = "done" => Len(exported') = 1]_vars

====
